---- MODULE Spec2Model ----
(***************************************************************************)
(* Model of resize_photos.py: the size-targeting JPEG re-encoder           *)
(* (resize_image_to_target_size) and the batch driver (main).              *)
(*                                                                         *)
(* File sizes are kept in bytes.  get_file_size_kb divides the byte count  *)
(* by 1024, so a size in KB is the byte count in units of 1/1024 KB and a  *)
(* whole number of KB k is Kb(k) = k * 1024 of these units; every          *)
(* comparison of the code is made on that common scale, which is exact.    *)
(*                                                                         *)
(* The JPEG encoder, the EXIF/colour normalisation and the file system's   *)
(* failures are the environment: the size an encode produces and whether   *)
(* an I/O call raises are chosen nondeterministically at the call.         *)
(***************************************************************************)
EXTENDS Integers, Sequences, FiniteSets, TLC

\* ---------------------------------------------------------------- bounds
MaxFiles == 2          \* files found by main
MaxDim == 3            \* largest width / height of an input image

\* ------------------------------------------------------ program constants
target_min_kb == 500
target_max_kb == 800
quality_start_default == 85
max_attempts == 15
BytesPerKb == 1024

Kb(k) == k * BytesPerKb

\* Sizes of the input files: both sides of every threshold the code tests
\* (min, max, 3 * max).
OrigSizes ==
    { Kb(target_min_kb) - 1, Kb(target_min_kb), Kb(target_max_kb),
      Kb(target_max_kb) + 1, Kb(3 * target_max_kb), Kb(3 * target_max_kb) + 1 }

\* Sizes an encode can produce: both sides of min, max and 1.2 * max.
EncSizes ==
    { Kb(target_min_kb) - 1, Kb(target_min_kb), Kb(target_max_kb),
      Kb(target_max_kb) + 1, (Kb(target_max_kb) * 12) \div 10,
      (Kb(target_max_kb) * 12) \div 10 + 1 }

QualityStarts == 1..100
Dims == 1..MaxDim

\* ------------------------------------------------------- pure functions

\* os.path.getsize(filepath) / 1024, in units of 1/1024 KB
get_file_size_kb(file) == file.bytes

\* Variant: the lower bound of the range test is strict.
InTargetRangeStrictMin(size) ==
    Kb(target_min_kb) < size /\ size <= Kb(target_max_kb)

\* target_min_kb <= size <= target_max_kb
InTargetRange(size) == Kb(target_min_kb) <= size /\ size <= Kb(target_max_kb)

\* Variant: the size in bytes is compared with the minimum in KB.
BelowMinimumInBytes(size) == size < target_min_kb

\* original_size_kb < target_min_kb
BelowMinimum(size) == size < Kb(target_min_kb)

\* original_size_kb > target_max_kb * 3
MuchLarger(size) == size > Kb(target_max_kb * 3)

\* int(dim * (target_max_kb * 1024 / (original_size_kb * 1024)) ** 0.5):
\* the largest k with k * k * original <= dim * dim * max
PreScale(dim, size) ==
    CHOOSE k \in 0..dim :
        /\ k * k * size <= dim * dim * Kb(target_max_kb)
        /\ (k + 1) * (k + 1) * size > dim * dim * Kb(target_max_kb)

\* int(dim * 0.9)
ReduceDim(dim) == (dim * 9) \div 10

Min(a, b) == IF a <= b THEN a ELSE b

\* final_size <= target_max_kb * 1.2
CloseEnough(size) == size * 10 <= Kb(target_max_kb) * 12

\* ----------------------------------------------------------------- state
VARIABLES
    fs,            \* file id -> the image file at that path
    fs0,           \* the files as they were when the program started
    temp,          \* file id -> <<>> or <<file>>: the file at path + ".temp"
    backups,       \* file id -> <<>> or <<file>>: the copy under backup_dir
    mainPc,        \* position of main
    args,          \* parsed command line
    jpg_files,     \* the list main iterates over
    idx,           \* position of main's loop in jpg_files
    success_count,
    calls,         \* paths handed to resize_image_to_target_size, in order
    results,       \* what each of those calls returned
    pc,            \* position of resize_image_to_target_size
    image_path,
    backup_dir,    \* TRUE when a backup directory was passed
    quality_start,
    original_size_kb,
    width,
    height,
    quality,
    attempts,
    temp_size_kb,
    ret,           \* the value returned
    retLine,       \* the source line of the return statement taken
    encodes        \* number of encodes (img.save) completed by this call

fsVars == <<fs, fs0, temp, backups>>
mainVars == <<mainPc, args, jpg_files, idx, success_count, calls, results>>
paramVars == <<image_path, backup_dir, quality_start>>
localVars == <<original_size_kb, width, height, quality, attempts, temp_size_kb>>
retVars == <<ret, retLine>>
vars == <<fsVars, mainVars, pc, paramVars, localVars, retVars, encodes>>

ImageFile(bytes, w, h) == [bytes |-> bytes, w |-> w, h |-> h, orig |-> TRUE]
Encoded(bytes, w, h) == [bytes |-> bytes, w |-> w, h |-> h, orig |-> FALSE]

\* What a save that raised may leave at the temp path.
PartialFile == Encoded(0, 0, 0)

\* ------------------------------------------- resize_image_to_target_size

\* A return statement of the function.
Return(value, line) ==
    /\ pc' = "returned"
    /\ ret' = value
    /\ retLine' = line

\* Lines 35-44: read the size; a file already in range is skipped.
\* os.path.getsize is outside the try block: an OSError leaves the function.
Entry ==
    /\ pc = "entry"
    /\ \/ /\ pc' = "raised"
          /\ UNCHANGED <<original_size_kb, retVars>>
       \/ /\ original_size_kb' = get_file_size_kb(fs[image_path])
          /\ IF InTargetRange(original_size_kb')
                THEN Return(TRUE, 44)
                ELSE pc' = "backup" /\ UNCHANGED retVars
    /\ UNCHANGED <<fsVars, mainVars, paramVars, width, height, quality,
                   attempts, temp_size_kb, encodes>>

\* create_backup: copy the file under backup_dir.
create_backup(path) == [backups EXCEPT ![path] = <<fs[path]>>]

\* Lines 46-53: back the original up when asked to; a failure returns False.
Backup ==
    /\ pc = "backup"
    /\ IF backup_dir
          THEN \/ /\ backups' = create_backup(image_path)
                  /\ pc' = "open"
                  /\ UNCHANGED retVars
               \/ /\ Return(FALSE, 53)
                  /\ UNCHANGED backups
          ELSE /\ pc' = "open"
               /\ UNCHANGED <<backups, retVars>>
    /\ UNCHANGED <<fs, fs0, temp, mainVars, paramVars, localVars, encodes>>

\* Lines 55-86: open the image, keep a file below the minimum, otherwise set
\* the search up (with the pre-scale of a much larger file).  The w and h of
\* the file are img.size after exif_transpose.
Open ==
    /\ pc = "open"
    /\ \/ /\ Return(FALSE, 147)           \* Image.open / transpose / convert raised
          /\ UNCHANGED localVars
       \/ IF BelowMinimum(original_size_kb)
             THEN /\ Return(TRUE, 70)
                  /\ UNCHANGED localVars
             ELSE /\ quality' = quality_start
                  /\ IF MuchLarger(original_size_kb)
                        THEN /\ width' = PreScale(fs[image_path].w, original_size_kb)
                             /\ height' = PreScale(fs[image_path].h, original_size_kb)
                        ELSE /\ width' = fs[image_path].w
                             /\ height' = fs[image_path].h
                  /\ attempts' = 0
                  /\ pc' = "loop"
                  /\ UNCHANGED <<original_size_kb, temp_size_kb, retVars>>
    /\ UNCHANGED <<fsVars, mainVars, paramVars, encodes>>

\* Variant: a too-small attempt ends the search whatever the quality.
AdjustBreakEarly(size, w, h, q) ==
    IF size > Kb(target_max_kb)
       THEN IF q > 60
               THEN [width |-> w, height |-> h, quality |-> q - 5, brk |-> FALSE]
               ELSE [width |-> ReduceDim(w), height |-> ReduceDim(h),
                     quality |-> Min(85, q + 10), brk |-> FALSE]
       ELSE [width |-> w, height |-> h, quality |-> q, brk |-> TRUE]

\* Variant: a too-small attempt raises the quality without a ceiling test.
AdjustNoCeiling(size, w, h, q) ==
    IF size > Kb(target_max_kb)
       THEN IF q > 60
               THEN [width |-> w, height |-> h, quality |-> q - 5, brk |-> FALSE]
               ELSE [width |-> ReduceDim(w), height |-> ReduceDim(h),
                     quality |-> Min(85, q + 10), brk |-> FALSE]
       ELSE [width |-> w, height |-> h, quality |-> q + 5, brk |-> FALSE]

\* Variant: the quality floor test is q >= 60.
AdjustFloorInclusive(size, w, h, q) ==
    IF size > Kb(target_max_kb)
       THEN IF q >= 60
               THEN [width |-> w, height |-> h, quality |-> q - 5, brk |-> FALSE]
               ELSE [width |-> ReduceDim(w), height |-> ReduceDim(h),
                     quality |-> Min(85, q + 10), brk |-> FALSE]
       ELSE IF q < 95
               THEN [width |-> w, height |-> h, quality |-> q + 5, brk |-> FALSE]
               ELSE [width |-> w, height |-> h, quality |-> q, brk |-> TRUE]

\* Lines 109-124: the adjustment after an attempt that missed the range.
\* Gives the new <<width, height, quality>> and whether the loop breaks.
Adjust(size, w, h, q) ==
    IF size > Kb(target_max_kb)
       THEN IF q > 60
               THEN [width |-> w, height |-> h, quality |-> q - 5, brk |-> FALSE]
               ELSE [width |-> ReduceDim(w), height |-> ReduceDim(h),
                     quality |-> Min(85, q + 10), brk |-> FALSE]
       ELSE IF q < 95
               THEN [width |-> w, height |-> h, quality |-> q + 5, brk |-> FALSE]
               ELSE [width |-> w, height |-> h, quality |-> q, brk |-> TRUE]

\* Variant: the image is saved in place, over image_path.
FailedSaveInPlace(left) ==
    [fs |-> IF left THEN [fs EXCEPT ![image_path] = PartialFile] ELSE fs,
     temp |-> temp]

\* Lines 96-97 when resized_img.save(temp_path, ...) raises: the save was
\* aimed at the temp path, where a partial file is left or not; the file at
\* image_path is not touched.
FailedSave(left) ==
    [fs |-> fs,
     temp |-> IF left THEN [temp EXCEPT ![image_path] = <<PartialFile>>]
                      ELSE temp]

\* Lines 88-130: one iteration of the search loop.  The size of the encoded
\* file is the encoder's: any of EncSizes.  A call that raises (resize, save,
\* getsize, replace, remove) goes to the handler at lines 145-147; resize and
\* save always raise on an image with a zero dimension.
Attempt ==
    /\ pc = "loop"
    /\ attempts < max_attempts
    /\ \/ \* img.resize or img.save raised; an empty image cannot be encoded
          /\ Return(FALSE, 147)
          /\ \E left \in BOOLEAN :
                /\ fs' = FailedSave(left).fs
                /\ temp' = FailedSave(left).temp
          /\ encodes' = encodes
          /\ UNCHANGED localVars
       \/ /\ width > 0 /\ height > 0
          /\ \E size \in EncSizes :
                /\ temp_size_kb' = size
                /\ encodes' = encodes + 1
                /\ IF InTargetRange(size)
                      THEN \* os.replace(temp_path, image_path)
                           /\ fs' = [fs EXCEPT ![image_path] =
                                        Encoded(size, width, height)]
                           /\ temp' = [temp EXCEPT ![image_path] = <<>>]
                           /\ Return(TRUE, 107)
                           /\ UNCHANGED <<width, height, quality, attempts>>
                      ELSE LET a == Adjust(size, width, height, quality) IN
                           /\ width' = a.width
                           /\ height' = a.height
                           /\ quality' = a.quality
                           /\ IF a.brk
                                 THEN /\ temp' = [temp EXCEPT ![image_path] =
                                             <<Encoded(size, width, height)>>]
                                      /\ attempts' = attempts
                                      /\ pc' = "final"
                                 ELSE /\ temp' = [temp EXCEPT ![image_path] = <<>>]
                                      /\ attempts' = attempts + 1
                                      /\ pc' = "loop"
                           /\ UNCHANGED <<fs, retVars>>
          /\ UNCHANGED original_size_kb
    /\ UNCHANGED <<fs0, backups, mainVars, paramVars>>

\* Lines 132-147: after the loop, use the temp file that is left if it is
\* at most 20% over the maximum.
Final ==
    /\ \/ pc = "final"
       \/ pc = "loop" /\ attempts >= max_attempts
    /\ IF temp[image_path] # <<>>
          THEN LET final_size == get_file_size_kb(temp[image_path][1]) IN
               \/ /\ temp' = [temp EXCEPT ![image_path] = <<>>]
                  /\ IF CloseEnough(final_size)
                        THEN /\ fs' = [fs EXCEPT ![image_path] = temp[image_path][1]]
                             /\ Return(TRUE, 138)
                        ELSE /\ Return(FALSE, 143)
                             /\ UNCHANGED fs
               \/ \* getsize, os.replace or os.remove raised
                  /\ Return(FALSE, 147)
                  /\ UNCHANGED <<fs, temp>>
          ELSE /\ Return(FALSE, 143)
               /\ UNCHANGED <<fs, temp>>
    /\ UNCHANGED <<fs0, backups, mainVars, paramVars, localVars, encodes>>

\* The frame of a call that has not started.
IdleFrame ==
    /\ pc = "idle"
    /\ image_path = 0
    /\ backup_dir = FALSE
    /\ quality_start = 0
    /\ original_size_kb = 0
    /\ width = 0
    /\ height = 0
    /\ quality = 0
    /\ attempts = 0
    /\ temp_size_kb = 0
    /\ ret = FALSE
    /\ retLine = 0
    /\ encodes = 0

\* The locals of a call are discarded when it has returned.
DiscardFrame ==
    /\ pc' = "idle"
    /\ image_path' = 0
    /\ backup_dir' = FALSE
    /\ quality_start' = 0
    /\ original_size_kb' = 0
    /\ width' = 0
    /\ height' = 0
    /\ quality' = 0
    /\ attempts' = 0
    /\ temp_size_kb' = 0
    /\ ret' = FALSE
    /\ retLine' = 0
    /\ encodes' = 0

\* One call of the function on one file, with any arguments.
InitResize ==
    /\ \E b \in OrigSizes, w \in Dims, h \in Dims :
          fs = [f \in {1} |-> ImageFile(b, w, h)]
    /\ fs0 = fs
    /\ temp = [f \in {1} |-> <<>>]
    /\ backups = [f \in {1} |-> <<>>]
    /\ mainPc = "none"
    /\ args = [dry_run |-> FALSE, backup |-> FALSE, source_exists |-> TRUE]
    /\ jpg_files = <<>>
    /\ idx = 0
    /\ success_count = 0
    /\ calls = <<>>
    /\ results = <<>>
    /\ pc = "entry"
    /\ image_path = 1
    /\ backup_dir \in BOOLEAN
    /\ quality_start \in QualityStarts
    /\ original_size_kb = 0
    /\ width = 0
    /\ height = 0
    /\ quality = 0
    /\ attempts = 0
    /\ temp_size_kb = 0
    /\ ret = FALSE
    /\ retLine = 0
    /\ encodes = 0

NextResize == Entry \/ Backup \/ Open \/ Attempt \/ Final

SpecResize == InitResize /\ [][NextResize]_vars

\* ------------------------------------------------------------------ main

\* Sizes of the files of a batch: below the minimum, in range, above the
\* maximum.
BatchSizes == { Kb(target_min_kb) - 1, Kb(target_min_kb), Kb(target_max_kb) + 1 }

\* Lines 158-188: parse the arguments, list the files, choose the mode.
MainStart ==
    /\ mainPc = "start"
    /\ IF ~args.source_exists
          THEN mainPc' = "exit1"
          ELSE IF jpg_files = <<>>
                  THEN mainPc' = "done"
                  ELSE IF args.dry_run
                          THEN mainPc' = "dryrun"
                          ELSE mainPc' = "loop"
    /\ idx' = 1
    /\ success_count' = 0
    /\ UNCHANGED <<fsVars, args, jpg_files, calls, results, pc, paramVars,
                   localVars, retVars, encodes>>

\* Variant: the dry-run branch lacks its return and falls into the loop.
DryRunStepNoReturn ==
    /\ mainPc = "dryrun"
    /\ \/ mainPc' = "aborted" /\ idx' = idx
       \/ IF idx = Len(jpg_files)
             THEN mainPc' = "loop" /\ idx' = 1
             ELSE mainPc' = "dryrun" /\ idx' = idx + 1
    /\ UNCHANGED <<fsVars, args, jpg_files, success_count, calls, results, pc,
                   paramVars, localVars, retVars, encodes>>

\* Lines 175-181: dry run, one file of the list: only its size is read.
DryRunStep ==
    /\ mainPc = "dryrun"
    /\ \/ mainPc' = "aborted" /\ idx' = idx      \* os.path.getsize raised
       \/ /\ idx' = idx + 1
          /\ mainPc' = IF idx = Len(jpg_files) THEN "done" ELSE "dryrun"
    /\ UNCHANGED <<fsVars, args, jpg_files, success_count, calls, results, pc,
                   paramVars, localVars, retVars, encodes>>

\* Lines 190-192: the loop calls resize_image_to_target_size on the next file.
Call ==
    /\ mainPc = "loop"
    /\ idx <= Len(jpg_files)
    /\ mainPc' = "call"
    /\ calls' = Append(calls, jpg_files[idx])
    /\ pc' = "entry"
    /\ image_path' = jpg_files[idx]
    /\ backup_dir' = args.backup
    /\ quality_start' = quality_start_default
    /\ UNCHANGED <<fsVars, args, jpg_files, idx, success_count, results,
                   localVars, retVars, encodes>>

\* Variant: the loop is left at the first call that returns False.
CollectStopOnFailure ==
    /\ mainPc = "call"
    /\ pc = "returned"
    /\ success_count' = IF ret THEN success_count + 1 ELSE success_count
    /\ results' = Append(results, ret)
    /\ idx' = IF ret THEN idx + 1 ELSE Len(jpg_files) + 1
    /\ mainPc' = "loop"
    /\ DiscardFrame
    /\ UNCHANGED <<fsVars, args, jpg_files, calls>>

\* Lines 192-193: the call returned; count a success, go to the next file.
Collect ==
    /\ mainPc = "call"
    /\ pc = "returned"
    /\ success_count' = IF ret THEN success_count + 1 ELSE success_count
    /\ results' = Append(results, ret)
    /\ idx' = idx + 1
    /\ mainPc' = "loop"
    /\ DiscardFrame
    /\ UNCHANGED <<fsVars, args, jpg_files, calls>>

\* An exception that left the call is not caught by main: the run ends.
Abort ==
    /\ mainPc = "call"
    /\ pc = "raised"
    /\ mainPc' = "aborted"
    /\ UNCHANGED <<fsVars, args, jpg_files, idx, success_count, calls, results,
                   pc, paramVars, localVars, retVars, encodes>>

\* Lines 195-199: the summary, after the last file.
Summary ==
    /\ mainPc = "loop"
    /\ idx > Len(jpg_files)
    /\ mainPc' = "done"
    /\ UNCHANGED <<fsVars, args, jpg_files, idx, success_count, calls, results,
                   pc, paramVars, localVars, retVars, encodes>>

\* "Successfully processed: {success_count}/{len(jpg_files)}"
ReportedSuccesses == success_count
\* "Failed to process: {len(jpg_files) - success_count}"
ReportedFailures == Len(jpg_files) - success_count

\* The state when main starts.  The two rglob patterns of line 166 are taken
\* to match disjoint sets of paths (a case-sensitive file system): jpg_files
\* names each file once.
Init ==
    /\ \E n \in 0..MaxFiles :
          /\ jpg_files = [i \in 1..n |-> i]
          /\ fs \in [1..n -> {ImageFile(b, MaxDim, MaxDim) : b \in BatchSizes}]
          /\ temp = [f \in 1..n |-> <<>>]
          /\ backups = [f \in 1..n |-> <<>>]
    /\ fs0 = fs
    /\ args \in [dry_run : BOOLEAN, backup : BOOLEAN, source_exists : BOOLEAN]
    /\ mainPc = "start"
    /\ idx = 0
    /\ success_count = 0
    /\ calls = <<>>
    /\ results = <<>>
    /\ IdleFrame

Next ==
    \/ MainStart \/ DryRunStep \/ Call \/ Collect \/ Abort \/ Summary
    \/ Entry \/ Backup \/ Open \/ Attempt \/ Final

Spec == Init /\ [][Next]_vars

\* --------------------------------------------------------------- claims

Returned == pc = "returned"
OrigBytes == fs0[image_path].bytes
NowBytes == fs[image_path].bytes
Searching == pc \in {"loop", "final"}

\* C1 (as stated): for an image above max, after the call returned, either it
\* returned False or the size of the file at image_path lies in
\* [min, 1.2 * max]; a successful return never leaves a file smaller than min.
C1_SizeInTolerance ==
    (Returned /\ OrigBytes > Kb(target_max_kb))
        => \/ ~ret
           \/ Kb(target_min_kb) <= NowBytes /\ CloseEnough(NowBytes)

\* C1 (amended): for an image above max, after the call returned, either it
\* returned False, or the file lies in [min, 1.2 * max], or the file is
\* smaller than min and is the result of a too-small attempt made at a
\* quality of 95 or more, which ended the search (return at line 138).
C1_SizeInToleranceOrCeiling ==
    (Returned /\ OrigBytes > Kb(target_max_kb) /\ ret)
        => \/ Kb(target_min_kb) <= NowBytes /\ CloseEnough(NowBytes)
           \/ /\ NowBytes < Kb(target_min_kb)
              /\ NowBytes = temp_size_kb
              /\ retLine = 138
              /\ quality >= 95

C1_Witness ==
    /\ Returned /\ ret /\ retLine = 138
    /\ OrigBytes > Kb(target_max_kb)
    /\ NowBytes < Kb(target_min_kb)
    /\ attempts > 0

\* C2: when the 15 attempts are used up and none landed in [min, max], the
\* result of the last attempt is written over the original and True is
\* returned if its size is at most 1.2 * max; False is returned otherwise.
C2_LastAttemptAccepted ==
    (Returned /\ attempts = max_attempts)
        => IF CloseEnough(temp_size_kb)
              THEN ret /\ ~fs[image_path].orig /\ NowBytes = temp_size_kb
              ELSE ~ret

\* C3: for an image whose size is in [min, max] the call does nothing: it
\* makes no encode attempt, writes no temp file, creates no backup, leaves the
\* file as it was, and returns True.
C3_InRangeNoOp ==
    (pc # "idle" /\ Kb(target_min_kb) <= OrigBytes /\ OrigBytes <= Kb(target_max_kb))
        => /\ fs = fs0
           /\ encodes = 0
           /\ temp[image_path] = <<>>
           /\ backups[image_path] = <<>>
           /\ pc \in {"entry", "returned", "raised"}
           /\ Returned => ret

C3_Witness ==
    /\ Returned /\ ret /\ retLine = 44
    /\ backup_dir
    /\ OrigBytes = Kb(target_min_kb)

\* C4: for an image below min the file at image_path is never changed and no
\* encode attempt is made, whatever is returned and whether or not a backup
\* was requested.
C4_BelowMinUnchanged ==
    (pc # "idle" /\ OrigBytes < Kb(target_min_kb))
        => /\ fs = fs0
           /\ encodes = 0
           /\ temp[image_path] = <<>>

C4_Witness ==
    /\ Returned /\ ret /\ retLine = 70
    /\ OrigBytes < Kb(target_min_kb)
    /\ backups[image_path] # <<>>

\* C5: for every starting quality in 1..100 and every sequence of encode
\* outcomes, the quality of every encode attempt and the quality after every
\* adjustment is within 1..100.
C5_QualityInRange ==
    (Searching \/ (Returned /\ encodes > 0)) => quality \in 1..100

C5_Witness ==
    /\ pc = "loop" /\ attempts = max_attempts
    /\ quality = 99

\* C6: for every image with positive width and height, the current width and
\* height are positive in every state of the search, after the pre-scale and
\* after every 10% reduction.
C6_DimsPositive == Searching => width > 0 /\ height > 0

\* C7: with --dry-run no file is modified, created or deleted, and neither
\* resize_image_to_target_size nor create_backup is called.
C7_DryRunReadOnly ==
    args.dry_run
        => /\ fs = fs0
           /\ \A f \in DOMAIN fs : temp[f] = <<>> /\ backups[f] = <<>>
           /\ calls = <<>>
           /\ pc = "idle"

C7_Witness ==
    /\ mainPc = "done" /\ args.dry_run /\ args.backup
    /\ idx > 1
    /\ \E f \in DOMAIN fs : ~InTargetRange(fs[f].bytes)

Successes == Cardinality({i \in 1..Len(results) : results[i]})

\* C8: in a batch that is not a dry run, a call that returns False (encoding
\* error, backup failure, budget exhaustion) does not stop the batch: the
\* files are handed to the function once each in list order, the batch ends
\* only after the last one, and the reported counts are the number of calls
\* that returned True and the total minus it.
C8_BatchContinues ==
    /\ calls = SubSeq(jpg_files, 1, Len(calls))
    /\ Len(results) <= Len(calls)
    /\ ReportedSuccesses = Successes
    /\ (mainPc = "done" /\ ~args.dry_run)
          => /\ calls = jpg_files
             /\ Len(results) = Len(jpg_files)
             /\ ReportedFailures = Len(results) - Successes
    /\ (mainPc = "aborted" /\ ~args.dry_run) => pc = "raised"

C8_Witness ==
    /\ mainPc = "done" /\ ~args.dry_run
    /\ Len(results) >= 2
    /\ ~results[1] /\ results[2]
    /\ ReportedFailures = 1

\* C9: after an attempt whose size is above max, a quality above 60 is
\* lowered by exactly 5 with the dimensions unchanged; at a quality of 60 or
\* less the width and height are reduced to 90% (truncated) and the quality
\* becomes min(85, quality + 10).  The dimensions change in no other case: not
\* while the quality can be lowered, and not after a too-small attempt.
C9_QualityBeforeDims ==
    [][(pc = "loop" /\ pc' \in {"loop", "final"})
          => /\ (temp_size_kb' > Kb(target_max_kb) /\ quality > 60)
                   => quality' = quality - 5 /\ width' = width /\ height' = height
             /\ (temp_size_kb' > Kb(target_max_kb) /\ quality <= 60)
                   => /\ width' = (width * 9) \div 10
                      /\ height' = (height * 9) \div 10
                      /\ quality' = IF quality + 10 < 85 THEN quality + 10 ELSE 85
             /\ (width' # width \/ height' # height)
                   => temp_size_kb' > Kb(target_max_kb) /\ quality <= 60
      ]_vars

C9_Witness ==
    /\ pc = "loop" /\ attempts > 0
    /\ ~MuchLarger(original_size_kb)
    /\ width < fs0[image_path].w
    /\ quality = 70

\* C10: whenever the call returns False the file at image_path is the input
\* file, unchanged.
C10_FailureLeavesOriginal ==
    (Returned /\ ~ret) => fs[image_path] = fs0[image_path]

C10_Witness ==
    /\ Returned /\ ~ret /\ retLine = 147
    /\ encodes > 0
    /\ temp[image_path] # <<>>

====
